---- MODULE Spec2Model ----
(***************************************************************************)
(* Model of stage_4/dashboard.py: a Streamlit script that is re-executed   *)
(* top to bottom on every user interaction.  One render is the chain       *)
(*   LoadData -> Enrich -> Sidebar -> FilterData -> Panels                 *)
(* and an interaction (a widget change or a plain rerun) starts the next   *)
(* render.  Numbers are exact: Price is an integer amount, Rating is in    *)
(* tenths, a quotient is kept as numerator and denominator, and the float  *)
(* values NaN and +inf are explicit kinds.                                 *)
(*                                                                         *)
(* Released is a timestamp counted in ticks; a calendar day has            *)
(* TicksPerDay ticks and a year has DaysPerYear days (year 0 stands for    *)
(* 2021, year 1 for 2022).                                                 *)
(***************************************************************************)
EXTENDS Integers, Sequences, FiniteSets, TLC

\* ---------------------------------------------------------------- bounds
MaxRows == 2
MaxInteractions == 1

\* nlargest(10)
TopN == 10

\* ------------------------------------------------------------ timestamps
\* the times of day and the days of a year the model tells apart
TimesOfDay == <<"00:00", "12:00">>
DaysOfYear == <<"01-01", "12-31">>
YearNames == <<"2021", "2022">>
TicksPerDay == Len(TimesOfDay)
DaysPerYear == Len(DaysOfYear)
NumYears == Len(YearNames)

Ts(day, tick) == day * TicksPerDay + tick

\* Timestamp.date(): the calendar day, the time of day dropped
DateOf(ts) == ts \div TicksPerDay

\* pd.Timestamp(date): midnight of that day
Timestamp(date) == date * TicksPerDay

\* Series.dt.year
YearOf(ts) == DateOf(ts) \div DaysPerYear

FirstDay(y) == y * DaysPerYear
LastDay(y) == y * DaysPerYear + (DaysPerYear - 1)
Days == 0 .. (NumYears * DaysPerYear - 1)

\* ------------------------------------------------------------ the data
zone_options == <<"Developed", "Emerging", "Frontier", "Other">>

ZoneSet == {zone_options[i] : i \in DOMAIN zone_options}

zone_mapping ==
    [z \in ZoneSet |->
        CASE z = "Developed" -> "economic_zone_Developed"
          [] z = "Emerging"  -> "economic_zone_Emerging"
          [] z = "Frontier"  -> "economic_zone_Frontier"
          [] z = "Other"     -> "economic_zone_Other"]

BaseColumns ==
    {"Category", "Developer Id", "geo_region", "Installs", "Price", "Rating", "Released"}

Row(cat, dev, reg, zone, inst, price, rating, rel) ==
    [Category |-> cat, geo_region |-> reg, economic_zone |-> zone,
     Installs |-> inst, Price |-> price, Rating |-> rating, Released |-> rel]
        @@ ("Developer Id" :> dev)

\* The two rows of the scenario table (2021-01-01 and 2022-06-01, at midnight)
ScenarioRow1 == Row("Games", 1, "NA", "Developed", 100, 0, 45, Ts(FirstDay(0), 0))
ScenarioRow2 == Row("Games", 2, "EU", "Emerging", 10, 5, 30, Ts(LastDay(1), 0))

\* The rows a data file is made of
Pool ==
    << ScenarioRow1,
       ScenarioRow2,
       Row("Tools", 1, "NA", "Developed", 20, 5, 40, Ts(LastDay(0), 1)),
       Row("Tools", 3, "EU", "Other", 10, 5, 20, Ts(FirstDay(0), 0)),
       Row("Games", 3, "NA", "Emerging", 20, 5, 50, Ts(FirstDay(1), 1)),
       Row("Tools", 2, "EU", "Frontier", 5, 0, 10, Ts(FirstDay(1), 0)) >>

RECURSIVE SeqsOver(_, _)
SeqsOver(S, n) ==
    IF n = 0 THEN {<<>>}
    ELSE LET shorter == SeqsOver(S, n - 1)
         IN shorter \cup {Append(s, x) : s \in {t \in shorter : Len(t) = n - 1}, x \in S}

\* A file with more developers than the top-N panel shows, some with equal revenue
ManyDevsRows ==
    [i \in 1 .. (TopN + 1) |->
        Row("Games", i, "NA", "Developed", 10, i % 3, 40, Ts(FirstDay(0), 0))]

FileRows ==
    {[i \in DOMAIN s |-> Pool[s[i]]] : s \in SeqsOver(DOMAIN Pool, MaxRows) \ {<<>>}}
        \cup {ManyDevsRows}

DropColumn(r, c) == [k \in (DOMAIN r) \ {c} |-> r[k]]

\* A parquet file: its columns and its rows, with or without an economic_zone column
Frame(cols, rows) == [cols |-> cols, rows |-> rows]

Files ==
    {Frame(BaseColumns \cup {"economic_zone"}, rs) : rs \in FileRows}
        \cup {Frame(BaseColumns, [i \in DOMAIN rs |-> DropColumn(rs[i], "economic_zone")])
                 : rs \in FileRows}

\* ------------------------------------------------------------ the state
VARIABLES
    data_file,      \* the file at data_file_path: [exists, frame]
    cache,          \* st.cache_data's entry for load_data: [filled, value]
    reads,          \* number of pd.read_parquet calls so far
    pc,             \* position of the running script
    df,             \* the script's df
    widgets,        \* the sidebar widgets' state kept by the session
    sel,            \* category_filter, region_filter, zone_filter, date_range, zone_columns
    df_filtered,    \* the script's df_filtered
    panels,         \* what the render has displayed
    executed,       \* the stages this render has run
    exception,      \* the exception that ended this render, or "none"
    errors,         \* number of st.error messages this render shows
    interactions    \* number of user interactions so far

vars == <<data_file, cache, reads, pc, df, widgets, sel, df_filtered, panels,
          executed, exception, errors, interactions>>

None == [none |-> TRUE, cols |-> {}, rows |-> <<>>]
Some(frame) == [none |-> FALSE, cols |-> frame.cols, rows |-> frame.rows]

NoSel ==
    [category_filter |-> {}, region_filter |-> {}, zone_filter |-> {},
     date_range |-> <<0, 0>>, zone_columns |-> {}]

NoPanels ==
    [total_revenue |-> 0, total_installs |-> 0, avg_rating |-> [num |-> 0, den |-> 0],
     category_revenue |-> <<>>, top_devs |-> <<>>, zone_revenue |-> <<>>,
     market_share |-> <<>>, yearly_growth |-> <<>>]

NoWidgets ==
    [touched |-> {}, category |-> {}, region |-> {}, zone |-> {}, date |-> <<0, 0>>]

Init ==
    /\ data_file \in {[exists |-> TRUE, frame |-> f] : f \in Files}
                        \cup {[exists |-> FALSE, frame |-> Frame({}, <<>>)]}
    /\ cache = [filled |-> FALSE, value |-> None]
    /\ reads = 0
    /\ pc = "load"
    /\ df = None
    /\ widgets = NoWidgets
    /\ sel = NoSel
    /\ df_filtered = None
    /\ panels = NoPanels
    /\ executed = {}
    /\ exception = "none"
    /\ errors = 0
    /\ interactions = 0

\* ------------------------------------------------------------ load_data
\* pd.read_parquet: the file's rows under a RangeIndex
read_parquet(file) ==
    Some(Frame(file.frame.cols,
               [i \in DOMAIN file.frame.rows |-> file.frame.rows[i] @@ ("index" :> i)]))

\* the body of load_data: the table, or st.error and None
load_data_body(file) == IF file.exists THEN read_parquet(file) ELSE None

\* load_data without its cache: the body runs on every call
LoadData_uncached ==
    /\ pc = "load"
    /\ df' = load_data_body(data_file)
    /\ cache' = [filled |-> TRUE, value |-> load_data_body(data_file)]
    /\ reads' = IF data_file.exists THEN reads + 1 ELSE reads
    /\ errors' = IF df'.none THEN 1 ELSE 0
    /\ executed' = executed \cup {"load"}
    /\ pc' = "enrich"
    /\ UNCHANGED <<data_file, widgets, sel, df_filtered, panels, exception, interactions>>

\* df = load_data() under @st.cache_data: the body runs on a cache miss only, its
\* result (None included) is stored, and every call returns a copy of the entry
LoadData ==
    /\ pc = "load"
    /\ IF cache.filled
          THEN /\ df' = cache.value
               /\ UNCHANGED <<cache, reads>>
          ELSE /\ df' = load_data_body(data_file)
               /\ cache' = [filled |-> TRUE, value |-> load_data_body(data_file)]
               /\ reads' = IF data_file.exists THEN reads + 1 ELSE reads
    \* st.error is replayed from the cache with the cached result
    /\ errors' = IF df'.none THEN 1 ELSE 0
    /\ executed' = executed \cup {"load"}
    /\ pc' = "enrich"
    /\ UNCHANGED <<data_file, widgets, sel, df_filtered, panels, exception, interactions>>

\* ------------------------------------------------------------ enrichment
\* the sorted index a groupby gives its result: the keys in ascending order
sorted_keys(S) ==
    CHOOSE q \in [1 .. Cardinality(S) -> S] :
        \A i, j \in 1 .. Cardinality(S) : i < j => q[i] < q[j]

\* Series.unique(): the values of a column
unique(frame, col) == {frame.rows[i][col] : i \in DOMAIN frame.rows}

\* the name pd.get_dummies gives the indicator column of value v
dummy_name(prefix, v) == prefix \o "_" \o v

\* get_dummies that fills every indicator of a row with true
get_dummies_ones(frame, col) ==
    LET values == unique(frame, col)
        expand(r) ==
            [k \in ((DOMAIN r) \ {col}) \cup {dummy_name(col, v) : v \in values} |->
                IF k \in (DOMAIN r) \ {col} THEN r[k] ELSE TRUE]
    IN [none |-> FALSE,
        cols |-> (frame.cols \ {col}) \cup {dummy_name(col, v) : v \in values},
        rows |-> [i \in DOMAIN frame.rows |-> expand(frame.rows[i])]]

\* pd.get_dummies(df, columns=[col]): col is replaced by one boolean indicator
\* column per value present in it
get_dummies(frame, col) ==
    LET values == unique(frame, col)
        expand(r) ==
            [k \in ((DOMAIN r) \ {col}) \cup {dummy_name(col, v) : v \in values} |->
                IF k \in (DOMAIN r) \ {col} THEN r[k]
                ELSE k = dummy_name(col, r[col])]
    IN [none |-> FALSE,
        cols |-> (frame.cols \ {col}) \cup {dummy_name(col, v) : v \in values},
        rows |-> [i \in DOMAIN frame.rows |-> expand(frame.rows[i])]]

\* df['revenue'] = df['Installs'] * df['Price']
add_revenue(frame) ==
    [none |-> FALSE,
     cols |-> frame.cols \cup {"revenue"},
     rows |-> [i \in DOMAIN frame.rows |->
                  frame.rows[i] @@ ("revenue" :> frame.rows[i].Installs * frame.rows[i].Price)]]

\* lines 32-36; subscripting None raises TypeError and ends the render
Enrich ==
    /\ pc = "enrich"
    /\ executed' = executed \cup {"enrich"}
    /\ IF df.none
          THEN /\ exception' = "TypeError"
               /\ pc' = "crashed"
               /\ UNCHANGED df
          ELSE /\ df' = IF "economic_zone" \in df.cols
                           THEN get_dummies(add_revenue(df), "economic_zone")
                           ELSE add_revenue(df)
               /\ pc' = "sidebar"
               /\ UNCHANGED exception
    /\ UNCHANGED <<data_file, cache, reads, widgets, sel, df_filtered, panels,
                   errors, interactions>>

\* ------------------------------------------------------------ sidebar
RECURSIVE SeqMin(_), SeqMax(_)
SeqMin(q) ==
    IF Len(q) = 1 THEN q[1]
    ELSE LET m == SeqMin(Tail(q)) IN IF q[1] <= m THEN q[1] ELSE m
SeqMax(q) ==
    IF Len(q) = 1 THEN q[1]
    ELSE LET m == SeqMax(Tail(q)) IN IF q[1] >= m THEN q[1] ELSE m

Released(frame) == [i \in DOMAIN frame.rows |-> frame.rows[i].Released]

\* a widget returns the user's value once touched, its default before
widget_value(w, name, default) == IF name \in w.touched THEN w[name] ELSE default

\* zone_columns = [zone_mapping[z] for z in zone_filter if zone_mapping[z] in df.columns]
zone_columns_of(zone_filter, frame) ==
    {zone_mapping[z] : z \in {y \in zone_filter : zone_mapping[y] \in frame.cols}}

\* lines 46-53
Sidebar ==
    /\ pc = "sidebar"
    /\ executed' = executed \cup {"sidebar"}
    /\ LET zf == widget_value(widgets, "zone", ZoneSet)
       IN sel' = [category_filter |->
                      widget_value(widgets, "category", unique(df, "Category")),
                  region_filter |->
                      widget_value(widgets, "region", unique(df, "geo_region")),
                  zone_filter |-> zf,
                  date_range |->
                      widget_value(widgets, "date",
                                   <<DateOf(SeqMin(Released(df))), DateOf(SeqMax(Released(df)))>>),
                  zone_columns |-> zone_columns_of(zf, df)]
    /\ pc' = "filter"
    /\ UNCHANGED <<data_file, cache, reads, df, widgets, df_filtered, panels,
                   exception, errors, interactions>>

\* ------------------------------------------------------------ filter
\* df[zone_columns].any(axis=1) if zone_columns else True
zone_term(r, zone_columns) ==
    IF zone_columns # {} THEN \E c \in zone_columns : r[c] ELSE TRUE

\* Series.between(left, right), inclusive on both sides
between(x, left, right) == left <= x /\ x <= right

\* the row mask of lines 56-61
keep(r, s) ==
    /\ r.Category \in s.category_filter
    /\ r.geo_region \in s.region_filter
    /\ zone_term(r, s.zone_columns)
    /\ between(r.Released, Timestamp(s.date_range[1]), Timestamp(s.date_range[2]))

\* df[mask]: the rows whose mask is true, in order
select_rows(frame, s) ==
    LET F[i \in 0 .. Len(frame.rows)] ==
            IF i = 0 THEN <<>>
            ELSE IF keep(frame.rows[i], s) THEN Append(F[i - 1], frame.rows[i])
                 ELSE F[i - 1]
    IN F[Len(frame.rows)]

FilterData ==
    /\ pc = "filter"
    /\ executed' = executed \cup {"filter"}
    /\ df_filtered' = [none |-> FALSE, cols |-> df.cols, rows |-> select_rows(df, sel)]
    /\ pc' = "panels"
    /\ UNCHANGED <<data_file, cache, reads, df, widgets, sel, panels,
                   exception, errors, interactions>>

\* ------------------------------------------------------------ float values
\* a float is a quotient num/den, NaN or +inf (no value here is negative infinity)
Num(n, d) == [kind |-> "num", num |-> n, den |-> d]
NaN == [kind |-> "nan", num |-> 0, den |-> 1]
Inf == [kind |-> "inf", num |-> 0, den |-> 1]

\* a / b for a, b >= 0 as floats divide: x/0 is inf, 0/0 is NaN
fdiv(a, b) == IF b # 0 THEN Num(a, b) ELSE IF a = 0 THEN NaN ELSE Inf

\* x - 1
fsub1(x) == IF x.kind = "num" THEN Num(x.num - x.den, x.den) ELSE x

\* x * k, k > 0
fmul(x, k) == IF x.kind = "num" THEN Num(x.num * k, x.den) ELSE x

\* Series.fillna(v) on one value
fillna(x, v) == IF x.kind = "nan" THEN Num(v, 1) ELSE x

\* ------------------------------------------------------------ aggregation
\* Series.sum() of a column
col_sum(rows, col) ==
    LET F[i \in 0 .. Len(rows)] == IF i = 0 THEN 0 ELSE F[i - 1] + rows[i][col]
    IN F[Len(rows)]

\* sum of a boolean column: the number of true entries
bool_sum(rows, col) ==
    LET F[i \in 0 .. Len(rows)] ==
            IF i = 0 THEN 0 ELSE F[i - 1] + (IF rows[i][col] THEN 1 ELSE 0)
    IN F[Len(rows)]

\* Series.mean(): sum over count, NaN when there is no row
col_mean(rows, col) == [num |-> col_sum(rows, col), den |-> Len(rows)]

rows_where(rows, col, v) ==
    LET F[i \in 0 .. Len(rows)] ==
            IF i = 0 THEN <<>>
            ELSE IF rows[i][col] = v THEN Append(F[i - 1], rows[i]) ELSE F[i - 1]
    IN F[Len(rows)]

\* groupby(key)[val].sum(): one entry per key value present
groupby_sum(rows, key, val) ==
    [k \in {rows[i][key] : i \in DOMAIN rows} |-> col_sum(rows_where(rows, key, k), val)]

\* Series.nlargest(n) of a series indexed by sorted keys: the n largest values in
\* descending order, equal values in index order (keep='first')
RECURSIVE nlargest(_, _, _)
nlargest(series, keys, n) ==
    IF n = 0 \/ keys = {} THEN <<>>
    ELSE LET best == CHOOSE k \in keys :
                        \A e \in keys :
                            \/ series[k] > series[e]
                            \/ (series[k] = series[e] /\ k <= e)
         IN <<[key |-> best, revenue |-> series[best]]>>
                \o nlargest(series, keys \ {best}, n - 1)

\* the developers' revenue ranking without the cut to the first ten
top_devs_uncut(rows) ==
    LET by_dev == groupby_sum(rows, "Developer Id", "revenue")
    IN nlargest(by_dev, DOMAIN by_dev, Cardinality(DOMAIN by_dev))

\* line 107
top_devs_of(rows) ==
    LET by_dev == groupby_sum(rows, "Developer Id", "revenue")
    IN nlargest(by_dev, DOMAIN by_dev, TopN)

\* 'pat' in s
str_contains(s, pat) ==
    \E i \in 1 .. (Len(s) - Len(pat) + 1) : SubSeq(s, i, i + Len(pat) - 1) = pat

\* s.replace(pat, ''): every occurrence of pat removed, left to right
RECURSIVE str_remove(_, _)
str_remove(s, pat) ==
    IF Len(s) < Len(pat) THEN s
    ELSE IF SubSeq(s, 1, Len(pat)) = pat
         THEN str_remove(SubSeq(s, Len(pat) + 1, Len(s)), pat)
         ELSE SubSeq(s, 1, 1) \o str_remove(SubSeq(s, 2, Len(s)), pat)

\* lines 116-119: the column-wise sum of the indicator columns, relabelled
zone_revenue_of(frame) ==
    LET zone_revenue_cols == {c \in frame.cols : str_contains(c, "economic_zone_")}
    IN [z \in {str_remove(c, "economic_zone_") : c \in zone_revenue_cols} |->
           bool_sum(frame.rows,
                    CHOOSE c \in zone_revenue_cols : str_remove(c, "economic_zone_") = z)]

\* a percent change taken relative to the current entry, not the previous one
pct_change_current(q) ==
    [k \in DOMAIN q |-> IF k = 1 THEN NaN ELSE fsub1(fdiv(q[k], q[k]))]

\* Series.pct_change() over the series in index order: x[k] / x[k-1] - 1, NaN first
pct_change(q) ==
    [k \in DOMAIN q |-> IF k = 1 THEN NaN ELSE fsub1(fdiv(q[k], q[k - 1]))]

\* lines 134-136
yearly_growth_of(rows) ==
    LET years == {YearOf(rows[i].Released) : i \in DOMAIN rows}
        index == sorted_keys(years)
        withyear == [i \in DOMAIN rows |-> rows[i] @@ ("year" :> YearOf(rows[i].Released))]
        by_year == groupby_sum(withyear, "year", "revenue")
        change == pct_change([k \in DOMAIN index |-> by_year[index[k]]])
    IN [k \in DOMAIN index |->
           [year |-> index[k], revenue |-> fmul(fillna(change[k], 0), 100)]]

\* the panels computed over df, not over df_filtered
Panels_unfiltered ==
    /\ pc = "panels"
    /\ executed' = executed \cup {"panels"}
    /\ panels' =
          [total_revenue |-> col_sum(df.rows, "revenue"),
           total_installs |-> col_sum(df.rows, "Installs"),
           avg_rating |-> col_mean(df.rows, "Rating"),
           category_revenue |-> groupby_sum(df.rows, "Category", "revenue"),
           top_devs |-> top_devs_of(df.rows),
           zone_revenue |-> zone_revenue_of(df),
           market_share |-> groupby_sum(df.rows, "geo_region", "revenue"),
           yearly_growth |-> yearly_growth_of(df.rows)]
    /\ pc' = "done"
    /\ UNCHANGED <<data_file, cache, reads, df, widgets, sel, df_filtered,
                   exception, errors, interactions>>

\* lines 72-149
Panels ==
    /\ pc = "panels"
    /\ executed' = executed \cup {"panels"}
    /\ panels' =
          [total_revenue |-> col_sum(df_filtered.rows, "revenue"),
           total_installs |-> col_sum(df_filtered.rows, "Installs"),
           avg_rating |-> col_mean(df_filtered.rows, "Rating"),
           category_revenue |-> groupby_sum(df_filtered.rows, "Category", "revenue"),
           top_devs |-> top_devs_of(df_filtered.rows),
           zone_revenue |-> zone_revenue_of(df_filtered),
           market_share |-> groupby_sum(df_filtered.rows, "geo_region", "revenue"),
           yearly_growth |-> yearly_growth_of(df_filtered.rows)]
    /\ pc' = "done"
    /\ UNCHANGED <<data_file, cache, reads, df, widgets, sel, df_filtered,
                   exception, errors, interactions>>

\* ------------------------------------------------------------ interactions
\* every interaction reruns the script from the top with a fresh namespace
rerun(w) ==
    /\ interactions < MaxInteractions
    /\ interactions' = interactions + 1
    /\ widgets' = w
    /\ pc' = "load"
    /\ df' = None
    /\ sel' = NoSel
    /\ df_filtered' = None
    /\ panels' = NoPanels
    /\ executed' = {}
    /\ exception' = "none"
    /\ errors' = 0
    /\ UNCHANGED <<data_file, cache, reads>>

touch(name, v) == [widgets EXCEPT !.touched = @ \cup {name}, ![name] = v]

SelectCategory ==
    /\ pc = "done"
    /\ \E S \in SUBSET unique(df, "Category") :
          S # sel.category_filter /\ rerun(touch("category", S))

SelectRegion ==
    /\ pc = "done"
    /\ \E S \in SUBSET unique(df, "geo_region") :
          S # sel.region_filter /\ rerun(touch("region", S))

SelectZones ==
    /\ pc = "done"
    /\ \E S \in SUBSET ZoneSet :
          S # sel.zone_filter /\ rerun(touch("zone", S))

SelectDates ==
    /\ pc = "done"
    /\ \E a, b \in Days :
          a <= b /\ <<a, b>> # sel.date_range /\ rerun(touch("date", <<a, b>>))

\* the user reruns the page without changing a widget
Rerun ==
    /\ pc \in {"done", "crashed"}
    /\ rerun(widgets)

Next ==
    \/ LoadData
    \/ Enrich
    \/ Sidebar
    \/ FilterData
    \/ Panels
    \/ SelectCategory
    \/ SelectRegion
    \/ SelectZones
    \/ SelectDates
    \/ Rerun

Spec == Init /\ [][Next]_vars

\* ------------------------------------------------------------ properties
\* the loaded table: the file's rows, row i under index i
Loaded == data_file.frame.rows
HasZoneColumn == "economic_zone" \in data_file.frame.cols

\* the rows of the loaded table the filtered view holds, by index
FilteredIds == {df_filtered.rows[i].index : i \in DOMAIN df_filtered.rows}
FilteredIsView ==
    \A i, j \in DOMAIN df_filtered.rows :
        i < j => df_filtered.rows[i].index < df_filtered.rows[j].index

RECURSIVE SumOver(_, _)
SumOver(S, f) ==
    IF S = {} THEN 0
    ELSE LET x == CHOOSE y \in S : TRUE IN f[x] + SumOver(S \ {x}, f)

RevenueOf == [i \in DOMAIN Loaded |-> Loaded[i].Installs * Loaded[i].Price]
InstallsOf == [i \in DOMAIN Loaded |-> Loaded[i].Installs]
RatingOf == [i \in DOMAIN Loaded |-> Loaded[i].Rating]

C1_ZoneCondition(i) ==
    (HasZoneColumn /\ sel.zone_filter # {}) => Loaded[i].economic_zone \in sel.zone_filter

\* C1: the filtered view is exactly the rows of the loaded table whose Category
\* and geo_region are selected, whose Released lies in [start, end], and, when
\* there are zone indicator columns and a zone is selected, whose zone is one of
\* the selected zones.
C1_FilterContract ==
    pc = "done" =>
        /\ FilteredIsView
        /\ FilteredIds =
              {i \in DOMAIN Loaded :
                  /\ Loaded[i].Category \in sel.category_filter
                  /\ Loaded[i].geo_region \in sel.region_filter
                  /\ Timestamp(sel.date_range[1]) <= Loaded[i].Released
                  /\ Loaded[i].Released <= Timestamp(sel.date_range[2])
                  /\ C1_ZoneCondition(i)}

\* C2: when the data file is missing the loader shows an error and returns
\* None, no later stage runs and the render does not end in an exception.
C2_MissingFileHalts ==
    (~data_file.exists /\ "load" \in executed) =>
        /\ errors = 1
        /\ df.none
        /\ executed = {"load"}
        /\ exception = "none"

C3_Emptied ==
    sel.category_filter = {} \/ sel.region_filter = {} \/ sel.zone_filter = {}

C3_PanelsEmpty ==
    /\ panels.total_revenue = 0
    /\ panels.total_installs = 0
    /\ panels.avg_rating.den = 0
    /\ DOMAIN panels.category_revenue = {}
    /\ panels.top_devs = <<>>
    /\ \A z \in DOMAIN panels.zone_revenue : panels.zone_revenue[z] = 0
    /\ DOMAIN panels.market_share = {}
    /\ panels.yearly_growth = <<>>

\* C3: once the user has emptied the Category, the Region or the Economic Zone
\* multiselect, the filtered view is empty and every aggregate is zero, empty or
\* NaN, and nothing raises.
C3_EmptiedMultiselect ==
    (pc \in {"panels", "done", "crashed"} /\ "sidebar" \in executed /\ C3_Emptied) =>
        /\ exception = "none"
        /\ df_filtered.rows = <<>>
        /\ pc = "done" => C3_PanelsEmpty

IsScenarioTable ==
    /\ data_file.exists
    /\ Len(Loaded) = 2
    /\ \A i \in 1 .. 2 :
          \A c \in BaseColumns : Loaded[i][c] = <<ScenarioRow1, ScenarioRow2>>[i][c]

\* C4: the KPIs are sums and a mean over the filtered rows only: total revenue
\* is the sum of Installs x Price, total installs the sum of Installs, average
\* rating the sum of Rating over the number of rows; the scenario table gives
\* 50 / 110 / 3.75 unfiltered and, restricted to 2021, one row, 0 and 4.5.
C4_KPIs ==
    pc = "done" =>
        /\ panels.total_revenue = SumOver(FilteredIds, RevenueOf)
        /\ panels.total_installs = SumOver(FilteredIds, InstallsOf)
        /\ panels.avg_rating.num = SumOver(FilteredIds, RatingOf)
        /\ panels.avg_rating.den = Cardinality(FilteredIds)
        /\ (IsScenarioTable /\ widgets.touched = {}) =>
              /\ panels.total_revenue = 50
              /\ panels.total_installs = 110
              /\ panels.avg_rating.den # 0
              /\ 100 * panels.avg_rating.num = 375 * 10 * panels.avg_rating.den
        /\ (/\ IsScenarioTable
            /\ widgets.touched = {"date"}
            /\ widgets.date = <<FirstDay(0), LastDay(0)>>) =>
              /\ Len(df_filtered.rows) = 1
              /\ panels.total_revenue = 0
              /\ panels.avg_rating.den # 0
              /\ 100 * panels.avg_rating.num = 450 * 10 * panels.avg_rating.den

C4_Witness ==
    /\ pc = "done"
    /\ IsScenarioTable
    /\ widgets.touched = {"date"}
    /\ widgets.date = <<FirstDay(0), LastDay(0)>>
    /\ Len(df_filtered.rows) = 1
    /\ Len(df.rows) = 2
    /\ panels.total_revenue = 0

C5_Bounded ==
    /\ Len(panels.top_devs) <= TopN
    /\ \A i, j \in DOMAIN panels.top_devs :
          i # j => panels.top_devs[i].key # panels.top_devs[j].key

\* C5 (as stated): the Top-10 developer list has at most 10 entries, no
\* Developer Id twice, and each entry's summed revenue is strictly greater than
\* the next entry's.
C5_StrictlyDescending ==
    pc = "done" =>
        /\ C5_Bounded
        /\ \A i \in 1 .. (Len(panels.top_devs) - 1) :
              panels.top_devs[i].revenue > panels.top_devs[i + 1].revenue

DevRevenue(d) ==
    SumOver({i \in FilteredIds : Loaded[i]["Developer Id"] = d}, RevenueOf)

FilteredDevs == {Loaded[i]["Developer Id"] : i \in FilteredIds}

\* C5 (amended): the Top-10 developer list has at most 10 entries, no Developer
\* Id twice, and each entry's summed revenue is greater than or equal to the
\* next entry's.  The entries are developers of the view with their summed
\* revenue, as many as there are up to 10, and no developer left out has more
\* revenue than a listed one.
C5_Descending ==
    pc = "done" =>
        /\ C5_Bounded
        /\ \A i \in 1 .. (Len(panels.top_devs) - 1) :
              panels.top_devs[i].revenue >= panels.top_devs[i + 1].revenue
        /\ \A i \in DOMAIN panels.top_devs :
              /\ panels.top_devs[i].key \in FilteredDevs
              /\ panels.top_devs[i].revenue = DevRevenue(panels.top_devs[i].key)
        /\ Len(panels.top_devs) =
              (IF Cardinality(FilteredDevs) < TopN THEN Cardinality(FilteredDevs) ELSE TopN)
        /\ \A d \in FilteredDevs \ {panels.top_devs[i].key : i \in DOMAIN panels.top_devs} :
              \A i \in DOMAIN panels.top_devs : DevRevenue(d) <= panels.top_devs[i].revenue

C5_Witness ==
    /\ pc = "done"
    /\ Cardinality(FilteredDevs) > TopN
    /\ Len(panels.top_devs) = TopN
    /\ \E i \in 1 .. (TopN - 1) :
          panels.top_devs[i].revenue = panels.top_devs[i + 1].revenue

FilteredYears == {YearOf(Loaded[i].Released) : i \in FilteredIds}

YearRevenue(y) ==
    SumOver({i \in FilteredIds : YearOf(Loaded[i].Released) = y}, RevenueOf)

IsNumber(x, n, d) == x.kind = "num" /\ x.den # 0 /\ d # 0 /\ x.num * d = n * x.den

C6_Series ==
    LET g == panels.yearly_growth
    IN /\ Len(g) = Cardinality(FilteredYears)
       /\ {g[k].year : k \in DOMAIN g} = FilteredYears
       /\ \A k \in 1 .. (Len(g) - 1) : g[k].year < g[k + 1].year
       /\ Len(g) >= 1 => IsNumber(g[1].revenue, 0, 1)

\* C6 (as stated): the growth series has one entry per release year of the
\* view, in year order; the first entry is 0 and every later entry is the
\* number 100 * (rev_y - rev_prev) / rev_prev.
C6_PercentChange ==
    pc = "done" =>
        /\ C6_Series
        /\ \A k \in 2 .. Len(panels.yearly_growth) :
              LET prev == YearRevenue(panels.yearly_growth[k - 1].year)
                  cur == YearRevenue(panels.yearly_growth[k].year)
              IN IsNumber(panels.yearly_growth[k].revenue, 100 * (cur - prev), prev)

\* C6 (amended): the growth series has one entry per release year of the view,
\* in year order; the first entry is 0; a later entry is the number
\* 100 * (rev_y - rev_prev) / rev_prev when rev_prev is not zero, and when
\* rev_prev is zero it is 0 if rev_y is zero too and +infinity otherwise.
C6_PercentChangeGuarded ==
    pc = "done" =>
        /\ C6_Series
        /\ \A k \in 2 .. Len(panels.yearly_growth) :
              LET prev == YearRevenue(panels.yearly_growth[k - 1].year)
                  cur == YearRevenue(panels.yearly_growth[k].year)
                  entry == panels.yearly_growth[k].revenue
              IN /\ prev # 0 => IsNumber(entry, 100 * (cur - prev), prev)
                 /\ (prev = 0 /\ cur = 0) => IsNumber(entry, 0, 1)
                 /\ (prev = 0 /\ cur # 0) => entry.kind = "inf"
        /\ (/\ Len(panels.yearly_growth) = 2
            /\ YearRevenue(panels.yearly_growth[1].year) = 50
            /\ YearRevenue(panels.yearly_growth[2].year) = 100) =>
              IsNumber(panels.yearly_growth[2].revenue, 100, 1)

C6_Witness ==
    /\ pc = "done"
    /\ Len(panels.yearly_growth) = 2
    /\ YearRevenue(panels.yearly_growth[1].year) = 50
    /\ YearRevenue(panels.yearly_growth[2].year) = 100
    /\ IsNumber(panels.yearly_growth[1].revenue, 0, 1)
    /\ IsNumber(panels.yearly_growth[2].revenue, 100, 1)

Enriched == pc \in {"sidebar", "filter", "panels", "done"}

IndicatorColumns == {c \in df.cols : str_contains(c, "economic_zone_")}

\* C7: when the loaded table has an economic_zone column, after enrichment
\* every row has boolean zone indicator columns of which exactly one is true,
\* the one named after the row's original economic_zone value.
C7_OneHot ==
    (HasZoneColumn /\ Enriched) =>
        /\ IndicatorColumns # {}
        /\ "economic_zone" \notin df.cols
        /\ Len(df.rows) = Len(Loaded)
        /\ \A i \in DOMAIN df.rows :
              LET r == df.rows[i]
                  zone == Loaded[r.index].economic_zone
              IN /\ DOMAIN r = df.cols \cup {"index"}
                 /\ \A c \in IndicatorColumns : r[c] \in BOOLEAN
                 /\ Cardinality({c \in IndicatorColumns : r[c]}) = 1
                 /\ zone_mapping[zone] \in IndicatorColumns
                 /\ r[zone_mapping[zone]]

C7_Witness ==
    /\ HasZoneColumn
    /\ pc = "sidebar"
    /\ Cardinality(IndicatorColumns) >= 2
    /\ \E i, j \in DOMAIN df.rows :
          /\ df.rows[i]["economic_zone_Developed"]
          /\ ~df.rows[j]["economic_zone_Developed"]

C8_Step ==
    /\ reads' <= 1
    /\ cache.filled => cache' = cache
    /\ (pc = "load" /\ pc' = "enrich") =>
          /\ cache'.filled
          /\ df' = cache'.value
          /\ df' = load_data_body(data_file)

\* C8: over a session the data file is read at most once; once the cache is
\* filled its entry never changes, whatever a render does to df, and every
\* render gets the same loaded rows from load_data.
C8_LoadedOnce == [][C8_Step]_vars

C8_Witness ==
    /\ interactions >= 1
    /\ pc = "done"
    /\ reads = 1
    /\ df # cache.value

ZoneRevenue(z) ==
    SumOver({i \in FilteredIds : Loaded[i].economic_zone = z}, RevenueOf)

\* C9: the Economic Zone Revenue Share panel shows, for each zone label, the
\* revenue of the filtered rows of that zone.
C9_ZoneRevenue ==
    (pc = "done" /\ HasZoneColumn) =>
        /\ DOMAIN panels.zone_revenue \subseteq ZoneSet
        /\ \A z \in DOMAIN panels.zone_revenue : panels.zone_revenue[z] = ZoneRevenue(z)

\* C10: with every control at its default the filtered view is the whole
\* loaded table.
C10_DefaultsKeepAll ==
    (pc = "done" /\ widgets.touched = {}) => FilteredIds = DOMAIN Loaded

====
